---- MODULE Spec2Model ----
(***************************************************************************)
(* Model of IssueHandler (src/features/issues/handlers/issue.handler.ts):  *)
(* one handler invocation per behaviour (the handler keeps no state from   *)
(* one call to the next), cut at its await points.  A handler              *)
(* runs synchronously from its call to its first await (verifyAuth,        *)
(* validation, parameter building, issuing the backend call) and again     *)
(* from each resolved or rejected await to the next one or to its end.     *)
(***************************************************************************)
EXTENDS Integers, Sequences, FiniteSets, TLC

\* Bounds of the explored inputs.
MaxQueryLen == 4
MaxTeams == 2
MaxStates == 3
MaxIssues == 2

VARIABLES
    authenticated, \* whether LinearAuth holds an established session
    pc,            \* "idle" | "awaitTeams" | "awaitBackend" | "done"
    op,            \* operation name of the current invocation
    args,          \* the handler's args object (update.stateId is replaced in place)
    supplied,      \* the args as the caller supplied them
    log,           \* verifyAuth / validateRequiredParams / adapter calls, in order
    teams,         \* outcome of client.getTeams() in this invocation
    response,      \* outcome of the primary adapter call in this invocation
    outcome        \* what the invocation returned or threw

vars == <<authenticated, pc, op, args, supplied, log, teams, response, outcome>>

----------------------------------------------------------------------------
\* JavaScript values, tagged by typeof / shape.  Strings are sequences of
\* one-character strings.

Undefined == [t |-> "undefined", v |-> <<>>]
Str(cs) == [t |-> "string", v |-> cs]
Num(n) == [t |-> "number", v |-> n]
Arr(xs) == [t |-> "array", v |-> xs]
Obj(fields) == [t |-> "object", v |-> fields]
NaN == [t |-> "number", v |-> -1]

\* JavaScript truthiness: undefined, "" and 0 are falsy; arrays and objects
\* (the empty array included) are truthy.
Truthy(x) ==
    CASE x.t = "undefined" -> FALSE
      [] x.t = "string" -> x.v # <<>>
      [] x.t = "number" -> x.v # 0
      [] OTHER -> TRUE

IsArray(x) == x.t = "array"

UpperChars == <<"A","B","C","D","E","F","G","H","I","J","K","L","M",
                "N","O","P","Q","R","S","T","U","V","W","X","Y","Z">>
LowerChars == <<"a","b","c","d","e","f","g","h","i","j","k","l","m",
                "n","o","p","q","r","s","t","u","v","w","x","y","z">>
DigitChars == <<"0","1","2","3","4","5","6","7","8","9">>

IsUpper(c) == \E i \in 1..26 : UpperChars[i] = c
IsDigit(c) == \E i \in 1..10 : DigitChars[i] = c
IsHex(c) == IsDigit(c) \/ \E i \in 1..6 : (LowerChars[i] = c \/ UpperChars[i] = c)
DigitValue(c) == (CHOOSE i \in 1..10 : DigitChars[i] = c) - 1

\* String.prototype.toLowerCase
toLowerCase(s) ==
    [i \in 1..Len(s) |->
        IF IsUpper(s[i]) THEN LowerChars[CHOOSE k \in 1..26 : UpperChars[k] = s[i]]
        ELSE s[i]]

\* String.prototype.trim
RECURSIVE TrimStart(_)
TrimStart(s) == IF s # <<>> /\ Head(s) = " " THEN TrimStart(Tail(s)) ELSE s
RECURSIVE TrimEnd(_)
TrimEnd(s) ==
    IF s # <<>> /\ s[Len(s)] = " " THEN TrimEnd(SubSeq(s, 1, Len(s) - 1)) ELSE s
trim(s) == TrimEnd(TrimStart(s))

\* String.prototype.split("-"): the pieces between hyphens, in order.
RECURSIVE split(_)
split(s) ==
    IF \A i \in 1..Len(s) : s[i] # "-" THEN <<s>>
    ELSE LET h == CHOOSE i \in 1..Len(s) :
                      s[i] = "-" /\ \A j \in 1..(i - 1) : s[j] # "-"
         IN <<SubSeq(s, 1, h - 1)>> \o split(SubSeq(s, h + 1, Len(s)))

\* parseInt(s, 10): the value of the longest prefix of decimal digits, NaN
\* when there is none.
RECURSIVE DecimalValue(_)
DecimalValue(ds) ==
    IF ds = <<>> THEN 0
    ELSE 10 * DecimalValue(SubSeq(ds, 1, Len(ds) - 1)) + DigitValue(ds[Len(ds)])
parseInt(s) ==
    LET n == CHOOSE k \in 0..Len(s) :
                 /\ \A j \in 1..k : IsDigit(s[j])
                 /\ (k < Len(s) => ~IsDigit(s[k + 1]))
    IN IF n = 0 THEN NaN ELSE Num(DecimalValue(SubSeq(s, 1, n)))

----------------------------------------------------------------------------
\* Errors and results.

Err(name, text, value) == [name |-> name, text |-> text, value |-> value]
NoError == Err("none", "", Undefined)
AuthError == Err("AuthError", "Not authenticated", Undefined)
TransportError == Err("TransportError", "adapter call rejected", Undefined)
TypeError == Err("TypeError", "Cannot read properties of undefined", Undefined)
Failure(text) == Err("Error", text, Undefined)

None == [kind |-> "none"]

\* BaseHandler.handleError: re-throws, tagged with the operation name.
handleError(error, operation) ==
    [kind |-> "error", operation |-> operation, error |-> error]

\* BaseHandler.createResponse / createJsonResponse
createResponse(text) == [kind |-> "ok", format |-> "text", body |-> text]
createJsonResponse(result) == [kind |-> "ok", format |-> "json", body |-> result]

\* BaseHandler.validateRequiredParams: a ValidationError naming the first
\* required field that is absent or empty; no error otherwise.
IsMissing(x) ==
    \/ x.t = "undefined"
    \/ x.t \in {"string", "array"} /\ x.v = <<>>
validateRequiredParams(params, required) ==
    LET missing == SelectSeq(required, LAMBDA f : IsMissing(params[f]))
    IN IF missing = <<>> THEN NoError
       ELSE Err("ValidationError", "Missing required parameter", Head(missing))

\* Promise outcomes of adapter calls.
Rejected == [t |-> "rejected", v |-> <<>>]
Resolved(x) == [t |-> "resolved", v |-> x]
NotCalled == [t |-> "notCalled", v |-> <<>>]

\* Log entries.
Event(name, arg) == [name |-> name, arg |-> arg]
VerifyAuth == Event("verifyAuth", Undefined)
Validate == Event("validateRequiredParams", Undefined)
Call(name, arg) == Event(name, arg)

----------------------------------------------------------------------------
\* Frames shared by the handlers.

\* A handler is entered with the caller's args.
Invoke(o, a) ==
    /\ op' = o
    /\ args' = a
    /\ supplied' = a
    /\ teams' = NotCalled
    /\ response' = NotCalled
    /\ UNCHANGED authenticated

\* An exception inside the try block: caught once, surfaced by handleError.
Throw(l, e, operation) ==
    /\ log' = l
    /\ pc' = "done"
    /\ outcome' = handleError(e, operation)

\* The handler suspends on the adapter call it has just issued.
Await(l, where) ==
    /\ log' = l
    /\ pc' = where
    /\ outcome' = None

\* The handler returns its result.
Return(r) ==
    /\ log' = log
    /\ pc' = "done"
    /\ outcome' = r

----------------------------------------------------------------------------
\* Inputs.

TextInputs == {Undefined, Str(<<>>), Str(<<"x">>)}
IdAt(i) == Str(<<"i", DigitChars[i + 1]>>)
IdList(n) == [i \in 1..n |-> IdAt(i)]

AnIssue ==
    Obj([identifier |-> "ENG-1", title |-> "T", url |-> "u",
         project |-> Undefined, parent |-> Undefined])

----------------------------------------------------------------------------
\* handleCreateIssue

\* A validation that forgets description.
CreateIssueRequiredNoDescription == <<"title", "teamId">>
CreateIssueRequired == <<"title", "description", "teamId">>

CreateIssueInputs ==
    [title : TextInputs, description : TextInputs, teamId : TextInputs]

CreateIssueResponses ==
    {Rejected} \cup
    {Resolved([success |-> s, issue |-> i]) : s \in BOOLEAN, i \in {Undefined, AnIssue}}

handleCreateIssue ==
    \/ /\ pc = "idle"
       /\ \E a \in CreateIssueInputs :
            LET invalid == validateRequiredParams(a, CreateIssueRequired) IN
            /\ Invoke("create issue", a)
            /\ IF ~authenticated THEN Throw(<<VerifyAuth>>, AuthError, "create issue")
               ELSE IF invalid # NoError THEN Throw(<<VerifyAuth, Validate>>, invalid,
                                                  "create issue")
               ELSE Await(<<VerifyAuth, Validate, Call("createIssue", a)>>,
                          "awaitBackend")
    \/ /\ pc = "awaitBackend"
       /\ op = "create issue"
       /\ \E r \in CreateIssueResponses :
            /\ response' = r
            /\ IF r.t = "rejected" THEN Throw(log, TransportError, "create issue")
               ELSE IF ~r.v.success \/ ~Truthy(r.v.issue)
               THEN Throw(log, Failure("Failed to create issue"), "create issue")
               ELSE Return(createResponse(
                        [headline |-> "Successfully created issue",
                         issue |-> r.v.issue.v.identifier,
                         title |-> r.v.issue.v.title,
                         url |-> r.v.issue.v.url,
                         project |-> IF Truthy(r.v.issue.v.project)
                                     THEN r.v.issue.v.project.v.name ELSE "None",
                         parent |-> IF Truthy(r.v.issue.v.parent)
                                    THEN r.v.issue.v.parent.v.identifier ELSE ""]))
       /\ UNCHANGED <<authenticated, op, args, supplied, teams>>

----------------------------------------------------------------------------
\* handleCreateIssues

CreateIssuesRequired == <<"issues">>

ACreateIssueInput ==
    Obj([title |-> Str(<<"x">>), description |-> Str(<<"x">>), teamId |-> Str(<<"x">>)])

ListInputs(item) ==
    {Undefined, Str(<<"x">>)} \cup
    {Arr([i \in 1..n |-> item[i]]) : n \in 0..MaxIssues}

CreateIssuesInputs ==
    [issues : ListInputs([i \in 1..MaxIssues |-> ACreateIssueInput])]

CreateIssuesResponses ==
    {Rejected} \cup
    {Resolved([success |-> s, issues |-> i]) :
        s \in BOOLEAN, i \in {Undefined, Arr(<<>>), Arr(<<AnIssue>>)}}

handleCreateIssues ==
    \/ /\ pc = "idle"
       /\ \E a \in CreateIssuesInputs :
            LET invalid == validateRequiredParams(a, CreateIssuesRequired) IN
            /\ Invoke("create issues", a)
            /\ IF ~authenticated THEN Throw(<<VerifyAuth>>, AuthError, "create issues")
               ELSE IF invalid # NoError
               THEN Throw(<<VerifyAuth, Validate>>, invalid, "create issues")
               ELSE IF ~IsArray(a.issues)
               THEN Throw(<<VerifyAuth, Validate>>,
                          Failure("Issues parameter must be an array"), "create issues")
               ELSE Await(<<VerifyAuth, Validate, Call("createIssues", a.issues)>>,
                          "awaitBackend")
    \/ /\ pc = "awaitBackend"
       /\ op = "create issues"
       /\ \E r \in CreateIssuesResponses :
            /\ response' = r
            /\ IF r.t = "rejected" THEN Throw(log, TransportError, "create issues")
               ELSE IF ~r.v.success \/ ~Truthy(r.v.issues)
               THEN Throw(log, Failure("Failed to create issues"), "create issues")
               ELSE Return(createResponse(
                        [headline |-> "Successfully created issues",
                         count |-> Len(r.v.issues.v),
                         bullets |-> [i \in 1..Len(r.v.issues.v) |->
                                        [issue |-> r.v.issues.v[i].v.identifier,
                                         title |-> r.v.issues.v[i].v.title,
                                         url |-> r.v.issues.v[i].v.url]]]))
       /\ UNCHANGED <<authenticated, op, args, supplied, teams>>

----------------------------------------------------------------------------
\* handleDeleteIssue

DeleteIssueRequired == <<"id">>

DeleteIssueInputs == [id : {Undefined, Str(<<>>), IdAt(1)}]

DeleteResponses == {Rejected} \cup {Resolved([success |-> s]) : s \in BOOLEAN}

\* A handler that validates only after it has issued the adapter call.
handleDeleteIssueCallFirst ==
    \/ /\ pc = "idle"
       /\ \E a \in DeleteIssueInputs :
            /\ Invoke("delete issue", a)
            /\ IF ~authenticated THEN Throw(<<VerifyAuth>>, AuthError, "delete issue")
               ELSE Await(<<VerifyAuth, Call("deleteIssue", a.id), Validate>>,
                          "awaitBackend")
    \/ /\ pc = "awaitBackend"
       /\ op = "delete issue"
       /\ \E r \in DeleteResponses :
            /\ response' = r
            /\ IF r.t = "rejected" THEN Throw(log, TransportError, "delete issue")
               ELSE IF ~r.v.success
               THEN Throw(log, Failure("Failed to delete issue"), "delete issue")
               ELSE Return(createResponse(
                        [headline |-> "Successfully deleted issue", id |-> args.id]))
       /\ UNCHANGED <<authenticated, op, args, supplied, teams>>

handleDeleteIssue ==
    \/ /\ pc = "idle"
       /\ \E a \in DeleteIssueInputs :
            LET invalid == validateRequiredParams(a, DeleteIssueRequired) IN
            /\ Invoke("delete issue", a)
            /\ IF ~authenticated THEN Throw(<<VerifyAuth>>, AuthError, "delete issue")
               ELSE IF invalid # NoError
               THEN Throw(<<VerifyAuth, Validate>>, invalid, "delete issue")
               ELSE Await(<<VerifyAuth, Validate, Call("deleteIssue", a.id)>>,
                          "awaitBackend")
    \/ /\ pc = "awaitBackend"
       /\ op = "delete issue"
       /\ \E r \in DeleteResponses :
            /\ response' = r
            /\ IF r.t = "rejected" THEN Throw(log, TransportError, "delete issue")
               ELSE IF ~r.v.success
               THEN Throw(log, Failure("Failed to delete issue"), "delete issue")
               ELSE Return(createResponse(
                        [headline |-> "Successfully deleted issue", id |-> args.id]))
       /\ UNCHANGED <<authenticated, op, args, supplied, teams>>

----------------------------------------------------------------------------
\* handleDeleteIssues

\* A validation that names no field.
DeleteIssuesRequiredNone == <<>>
DeleteIssuesRequired == <<"ids">>

DeleteIssuesInputs == [ids : ListInputs(IdList(MaxIssues))]

handleDeleteIssues ==
    \/ /\ pc = "idle"
       /\ \E a \in DeleteIssuesInputs :
            LET invalid == validateRequiredParams(a, DeleteIssuesRequired) IN
            /\ Invoke("delete issues", a)
            /\ IF ~authenticated THEN Throw(<<VerifyAuth>>, AuthError, "delete issues")
               ELSE IF invalid # NoError
               THEN Throw(<<VerifyAuth, Validate>>, invalid, "delete issues")
               ELSE IF ~IsArray(a.ids)
               THEN Throw(<<VerifyAuth, Validate>>,
                          Failure("Ids parameter must be an array"), "delete issues")
               ELSE Await(<<VerifyAuth, Validate, Call("deleteIssues", a.ids)>>,
                          "awaitBackend")
    \/ /\ pc = "awaitBackend"
       /\ op = "delete issues"
       /\ \E r \in DeleteResponses :
            /\ response' = r
            /\ IF r.t = "rejected" THEN Throw(log, TransportError, "delete issues")
               ELSE IF ~r.v.success
               THEN Throw(log, Failure("Failed to delete issues"), "delete issues")
               ELSE Return(createResponse(
                        [headline |-> "Successfully deleted issues",
                         count |-> Len(args.ids.v),
                         ids |-> args.ids.v]))
       /\ UNCHANGED <<authenticated, op, args, supplied, teams>>

----------------------------------------------------------------------------
\* handleAddComment

AddCommentRequired == <<"issueId", "body">>

AddCommentInputs == [issueId : {Undefined, Str(<<>>), IdAt(1)}, body : TextInputs]

AComment ==
    Obj([id |-> "c1", url |-> "u", body |-> "hi",
         user |-> [name |-> "bob", displayName |-> ""],
         createdAt |-> "2024-01-01T00:00:00Z"])

AddCommentResponses ==
    {Rejected} \cup
    {Resolved([success |-> s, comment |-> c]) :
        s \in BOOLEAN, c \in {Undefined, AComment}}

handleAddComment ==
    \/ /\ pc = "idle"
       /\ \E a \in AddCommentInputs :
            LET invalid == validateRequiredParams(a, AddCommentRequired) IN
            /\ Invoke("add comment", a)
            /\ IF ~authenticated THEN Throw(<<VerifyAuth>>, AuthError, "add comment")
               ELSE IF invalid # NoError
               THEN Throw(<<VerifyAuth, Validate>>, invalid, "add comment")
               ELSE Await(<<VerifyAuth, Validate, Call("addComment", a)>>,
                          "awaitBackend")
    \/ /\ pc = "awaitBackend"
       /\ op = "add comment"
       /\ \E r \in AddCommentResponses :
            /\ response' = r
            /\ IF r.t = "rejected" THEN Throw(log, TransportError, "add comment")
               ELSE IF ~r.v.success \/ ~Truthy(r.v.comment)
               THEN Throw(log, Failure("Failed to add comment"), "add comment")
               ELSE Return(createResponse(
                        [headline |-> "Successfully added comment to issue",
                         id |-> r.v.comment.v.id,
                         url |-> r.v.comment.v.url,
                         by |-> IF r.v.comment.v.user.displayName # ""
                                THEN r.v.comment.v.user.displayName
                                ELSE r.v.comment.v.user.name,
                         createdAt |-> r.v.comment.v.createdAt]))
       /\ UNCHANGED <<authenticated, op, args, supplied, teams>>

----------------------------------------------------------------------------
\* handleGetComments

GetCommentsRequired == <<"issueId">>

GetCommentsInputs == [issueId : {Undefined, Str(<<>>), IdAt(1)}]

GetCommentsResponses ==
    {Rejected, Resolved([issue |-> Undefined]),
     Resolved([issue |-> Obj([comments |-> Undefined])])} \cup
    {Resolved([issue |-> Obj([comments |->
        Obj([nodes |-> n, pageInfo |-> [hasNextPage |-> h, endCursor |-> "cur"]])])]) :
        n \in {<<>>, <<AComment>>}, h \in BOOLEAN}

handleGetComments ==
    \/ /\ pc = "idle"
       /\ \E a \in GetCommentsInputs :
            LET invalid == validateRequiredParams(a, GetCommentsRequired) IN
            /\ Invoke("get comments", a)
            /\ IF ~authenticated THEN Throw(<<VerifyAuth>>, AuthError, "get comments")
               ELSE IF invalid # NoError
               THEN Throw(<<VerifyAuth, Validate>>, invalid, "get comments")
               ELSE Await(<<VerifyAuth, Validate, Call("getComments", a.issueId)>>,
                          "awaitBackend")
    \/ /\ pc = "awaitBackend"
       /\ op = "get comments"
       /\ \E r \in GetCommentsResponses :
            /\ response' = r
            /\ IF r.t = "rejected" THEN Throw(log, TransportError, "get comments")
               ELSE IF ~Truthy(r.v.issue) \/ ~Truthy(r.v.issue.v.comments)
               THEN Throw(log, Failure("Failed to get comments or issue not found"),
                          "get comments")
               ELSE LET comments == r.v.issue.v.comments.v.nodes
                        pageInfo == r.v.issue.v.comments.v.pageInfo
                    IN Return(createResponse(
                        [headline |-> "Found comments",
                         count |-> Len(comments),
                         entries |-> [i \in 1..Len(comments) |->
                                        [index |-> i,
                                         by |-> IF comments[i].v.user.displayName # ""
                                                THEN comments[i].v.user.displayName
                                                ELSE comments[i].v.user.name,
                                         body |-> comments[i].v.body,
                                         url |-> comments[i].v.url]],
                         more |-> IF pageInfo.hasNextPage
                                  THEN pageInfo.endCursor ELSE ""]))
       /\ UNCHANGED <<authenticated, op, args, supplied, teams>>

----------------------------------------------------------------------------
\* State-name resolution, written out twice in the source with the same
\* text: in handleUpdateIssue and in handleBulkUpdateIssues.

\* /^[0-9a-f]{8}-[0-9a-f]{4}-[0-9a-f]{4}-[0-9a-f]{4}-[0-9a-f]{12}$/i
IsOpaqueId(s) ==
    /\ Len(s) = 36
    /\ \A i \in 1..36 : IF i \in {9, 14, 19, 24} THEN s[i] = "-" ELSE IsHex(s[i])

\* The condition under which the value is taken for a state name.
NeedsStateLookup(stateId) ==
    /\ Truthy(stateId)
    /\ stateId.t = "string"
    /\ ~IsOpaqueId(stateId.v)

\* A find that compares the state's name as it is written.
FindMatchingStateCaseSensitive(states, stateName) ==
    IF \E i \in 1..Len(states) : states[i].name.v = stateName
    THEN Obj(states[CHOOSE i \in 1..Len(states) :
                 /\ states[i].name.v = stateName
                 /\ \A j \in 1..(i - 1) : states[j].name.v # stateName])
    ELSE Undefined

\* Array.prototype.find over a team's states: the first state whose
\* lower-cased name is stateName, Undefined when there is none.
FindMatchingState(states, stateName) ==
    IF \E i \in 1..Len(states) : toLowerCase(states[i].name.v) = stateName
    THEN Obj(states[CHOOSE i \in 1..Len(states) :
                 /\ toLowerCase(states[i].name.v) = stateName
                 /\ \A j \in 1..(i - 1) : toLowerCase(states[j].name.v) # stateName])
    ELSE Undefined

\* A loop that lets a later team's match replace an earlier one (no break).
RECURSIVE FindStateIdLastTeam(_, _)
FindStateIdLastTeam(nodes, stateName) ==
    IF nodes = <<>> THEN Undefined
    ELSE LET matchingState ==
                 FindMatchingState(nodes[Len(nodes)].states, stateName)
         IN IF Truthy(matchingState) THEN matchingState.v.id
            ELSE FindStateIdLastTeam(SubSeq(nodes, 1, Len(nodes) - 1), stateName)

\* The loop over the teams: stops at the first team that has a matching state.
RECURSIVE FindStateId(_, _)
FindStateId(nodes, stateName) ==
    IF nodes = <<>> THEN Undefined
    ELSE LET matchingState == FindMatchingState(Head(nodes).states, stateName)
         IN IF Truthy(matchingState) THEN matchingState.v.id
            ELSE FindStateId(Tail(nodes), stateName)

\* A resolution that never reports a missing state.
StateNotFoundNever(stateId) == FALSE

\* if (!stateId) throw ...
StateNotFound(stateId) == ~Truthy(stateId)

\* A resolution that forgets to store the id it found.
ReplaceStateIdDropped(a, stateId) == a

\* args.update.stateId = stateId
ReplaceStateId(a, stateId) ==
    [a EXCEPT !.update = Obj([a.update.v EXCEPT !.stateId = stateId])]

CouldNotFindState(stateId) ==
    Err("Error", "Could not find state with name: ", stateId)

\* Inputs of the update operations.
Hyphenated(hex) == [i \in 1..36 |-> IF i \in {9, 14, 19, 24} THEN "-" ELSE hex[i]]
UuidLower == Hyphenated([i \in 1..36 |-> IF i % 2 = 0 THEN "a" ELSE "0"])
UuidUpper == Hyphenated([i \in 1..36 |-> IF i % 2 = 0 THEN "F" ELSE "9"])
NearUuid == Hyphenated([i \in 1..36 |-> IF i = 36 THEN "g" ELSE "b"])

StateIdInputs ==
    {Undefined, Num(5), Str(<<>>),
     Str(<<"d","o","n","e">>), Str(<<"D","o","N","e">>),
     Str(<<"U","n","k","n","o","w","n">>),
     Str(UuidLower), Str(UuidUpper), Str(NearUuid)}

UpdateInputs ==
    {Undefined} \cup
    {Obj([stateId |-> s, title |-> Str(<<"t">>)]) : s \in StateIdInputs}

\* What getTeams may resolve to: up to MaxTeams teams holding up to
\* MaxStates workflow states in all, ids distinct, names not.
StateNames == {<<"D","o","n","e">>, <<"T","o","d","o">>}
StateIdAt(t, i) == Str(<<"s", DigitChars[t + 1], DigitChars[i + 1]>>)
NameLists == UNION {[1..n -> StateNames] : n \in 0..MaxStates}
RECURSIVE TotalLen(_)
TotalLen(ls) == IF ls = <<>> THEN 0 ELSE Len(Head(ls)) + TotalLen(Tail(ls))
TeamNodes ==
    {[t \in 1..Len(ls) |->
        [key |-> UpperChars[t],
         states |-> [i \in 1..Len(ls[t]) |->
                        [id |-> StateIdAt(t, i), name |-> Str(ls[t][i])]]]] :
     ls \in {x \in UNION {[1..k -> NameLists] : k \in 0..MaxTeams} :
                TotalLen(x) <= MaxStates}}

GetTeamsResponses == {Rejected} \cup {Resolved(n) : n \in TeamNodes}

UpdateIssueResponses ==
    {Rejected} \cup
    {Resolved([success |-> s, issue |-> i]) : s \in BOOLEAN, i \in {Undefined, AnIssue}}

----------------------------------------------------------------------------
\* handleUpdateIssue

UpdateIssueRequired == <<"id", "update">>

UpdateIssueInputs == [id : {Undefined, Str(<<>>), IdAt(1)}, update : UpdateInputs]

handleUpdateIssue ==
    \/ /\ pc = "idle"
       /\ \E a \in UpdateIssueInputs :
            LET invalid == validateRequiredParams(a, UpdateIssueRequired) IN
            /\ Invoke("update issue", a)
            /\ IF ~authenticated THEN Throw(<<VerifyAuth>>, AuthError, "update issue")
               ELSE IF invalid # NoError
               THEN Throw(<<VerifyAuth, Validate>>, invalid, "update issue")
               ELSE IF NeedsStateLookup(a.update.v.stateId)
               THEN Await(<<VerifyAuth, Validate, Call("getTeams", Undefined)>>,
                          "awaitTeams")
               ELSE Await(<<VerifyAuth, Validate,
                            Call("updateIssue", [id |-> a.id, update |-> a.update])>>,
                          "awaitBackend")
    \/ /\ pc = "awaitTeams"
       /\ op = "update issue"
       /\ \E r \in GetTeamsResponses :
            /\ teams' = r
            /\ IF r.t = "rejected"
               THEN Throw(log, TransportError, "update issue") /\ UNCHANGED args
               ELSE LET stateName == toLowerCase(args.update.v.stateId.v)
                        stateId == FindStateId(r.v, stateName)
                    IN IF StateNotFound(stateId)
                       THEN /\ Throw(log, CouldNotFindState(args.update.v.stateId),
                                     "update issue")
                            /\ UNCHANGED args
                       ELSE /\ args' = ReplaceStateId(args, stateId)
                            /\ Await(Append(log, Call("updateIssue",
                                        [id |-> args'.id, update |-> args'.update])),
                                     "awaitBackend")
       /\ UNCHANGED <<authenticated, op, supplied, response>>
    \/ /\ pc = "awaitBackend"
       /\ op = "update issue"
       /\ \E r \in UpdateIssueResponses :
            /\ response' = r
            /\ IF r.t = "rejected" THEN Throw(log, TransportError, "update issue")
               ELSE IF ~r.v.success
               THEN Throw(log, Failure("Failed to update issue"), "update issue")
               ELSE IF ~Truthy(r.v.issue)
               THEN Throw(log, TypeError, "update issue")
               ELSE Return(createResponse(
                        [headline |-> "Successfully updated issue",
                         issue |-> r.v.issue.v.identifier,
                         title |-> r.v.issue.v.title,
                         url |-> r.v.issue.v.url,
                         state |-> "Unknown"]))
       /\ UNCHANGED <<authenticated, op, args, supplied, teams>>

----------------------------------------------------------------------------
\* handleBulkUpdateIssues

BulkUpdateIssuesRequired == <<"issueIds", "update">>

BulkUpdateIssuesInputs ==
    [issueIds : ListInputs(IdList(MaxIssues)), update : UpdateInputs]

UpdateIssuesResponses ==
    {Rejected} \cup {Resolved([success |-> s]) : s \in BOOLEAN}

handleBulkUpdateIssues ==
    \/ /\ pc = "idle"
       /\ \E a \in BulkUpdateIssuesInputs :
            LET invalid == validateRequiredParams(a, BulkUpdateIssuesRequired) IN
            /\ Invoke("update issues", a)
            /\ IF ~authenticated THEN Throw(<<VerifyAuth>>, AuthError, "update issues")
               ELSE IF invalid # NoError
               THEN Throw(<<VerifyAuth, Validate>>, invalid, "update issues")
               ELSE IF ~IsArray(a.issueIds)
               THEN Throw(<<VerifyAuth, Validate>>,
                          Failure("IssueIds parameter must be an array"),
                          "update issues")
               ELSE IF NeedsStateLookup(a.update.v.stateId)
               THEN Await(<<VerifyAuth, Validate, Call("getTeams", Undefined)>>,
                          "awaitTeams")
               ELSE Await(<<VerifyAuth, Validate,
                            Call("updateIssues",
                                 [issueIds |-> a.issueIds, update |-> a.update])>>,
                          "awaitBackend")
    \/ /\ pc = "awaitTeams"
       /\ op = "update issues"
       /\ \E r \in GetTeamsResponses :
            /\ teams' = r
            /\ IF r.t = "rejected"
               THEN Throw(log, TransportError, "update issues") /\ UNCHANGED args
               ELSE LET stateName == toLowerCase(args.update.v.stateId.v)
                        stateId == FindStateId(r.v, stateName)
                    IN IF StateNotFound(stateId)
                       THEN /\ Throw(log, CouldNotFindState(args.update.v.stateId),
                                     "update issues")
                            /\ UNCHANGED args
                       ELSE /\ args' = ReplaceStateId(args, stateId)
                            /\ Await(Append(log, Call("updateIssues",
                                        [issueIds |-> args'.issueIds,
                                         update |-> args'.update])),
                                     "awaitBackend")
       /\ UNCHANGED <<authenticated, op, supplied, response>>
    \/ /\ pc = "awaitBackend"
       /\ op = "update issues"
       /\ \E r \in UpdateIssuesResponses :
            /\ response' = r
            /\ IF r.t = "rejected" THEN Throw(log, TransportError, "update issues")
               ELSE IF ~r.v.success
               THEN Throw(log, Failure("Failed to update issues"), "update issues")
               ELSE Return(createResponse(
                        [headline |-> "Successfully updated issues",
                         count |-> Len(args.issueIds.v)]))
       /\ UNCHANGED <<authenticated, op, args, supplied, teams>>

----------------------------------------------------------------------------
\* handleSearchIssues

DefaultFirst == 50

\* The identifier test with the i flag: letters of either case.
LooksLikeIdentifierAnyCase(s) ==
    LET IsLetter(c) == IsUpper(c) \/ \E i \in 1..26 : LowerChars[i] = c
        n == CHOOSE k \in 0..Len(s) :
                 /\ \A j \in 1..k : IsLetter(s[j])
                 /\ (k < Len(s) => ~IsLetter(s[k + 1]))
    IN /\ n >= 1
       /\ Len(s) >= n + 2
       /\ s[n + 1] = "-"
       /\ \A j \in (n + 2)..Len(s) : IsDigit(s[j])

\* /^[A-Z]+-\d+$/.test(s)
LooksLikeIdentifier(s) ==
    LET n == CHOOSE k \in 0..Len(s) :
                 /\ \A j \in 1..k : IsUpper(s[j])
                 /\ (k < Len(s) => ~IsUpper(s[k + 1]))
    IN /\ n >= 1
       /\ Len(s) >= n + 2
       /\ s[n + 1] = "-"
       /\ \A j \in (n + 2)..Len(s) : IsDigit(s[j])

EmptyFilter ==
    [team |-> Undefined, number |-> Undefined, search |-> Undefined,
     project |-> Undefined, assignee |-> Undefined, state |-> Undefined,
     priority |-> Undefined]

\* The query branch.
QueryFilter(query) ==
    IF Truthy(query) /\ LooksLikeIdentifier(trim(query.v))
    THEN LET parts == split(trim(query.v))
             teamKey == parts[1]
             issueNumber == parts[2]
         IN [EmptyFilter EXCEPT
                !.team = Obj([key |-> [eq |-> Str(teamKey)]]),
                !.number = Obj([eq |-> parseInt(issueNumber)])]
    ELSE IF Truthy(query) THEN [EmptyFilter EXCEPT !.search = query]
    ELSE EmptyFilter

\* The direct filters, assigned onto the filter in source order.
WithProject(filter, a) ==
    IF Truthy(a.project) THEN [filter EXCEPT !.project = Obj([id |-> [eq |-> a.project]])]
    ELSE filter
WithTeamIds(filter, a) ==
    IF Truthy(a.teamIds) THEN [filter EXCEPT !.team = Obj([id |-> [in |-> a.teamIds]])]
    ELSE filter
WithAssigneeIds(filter, a) ==
    IF Truthy(a.assigneeIds)
    THEN [filter EXCEPT !.assignee = Obj([id |-> [in |-> a.assigneeIds]])]
    ELSE filter
WithStates(filter, a) ==
    IF Truthy(a.states) THEN [filter EXCEPT !.state = Obj([name |-> [in |-> a.states]])]
    ELSE filter
WithPriority(filter, a) ==
    IF a.priority.t = "number" THEN [filter EXCEPT !.priority = Obj([eq |-> a.priority])]
    ELSE filter

BuildFilter(a) ==
    WithPriority(WithStates(WithAssigneeIds(WithTeamIds(WithProject(
        QueryFilter(a.query), a), a), a), a), a)

QueryChars == {"A", "b", "-", "0", "7", " "}
Queries == UNION {[1..n -> QueryChars] : n \in 0..MaxQueryLen}

SearchIssuesInputs ==
    [query : {Undefined} \cup {Str(q) : q \in Queries},
     project : {Undefined, Str(<<"p">>)},
     teamIds : {Undefined, Arr(<<Str(<<"t">>)>>)},
     assigneeIds : {Undefined, Arr(<<Str(<<"u">>)>>)},
     states : {Undefined, Arr(<<Str(<<"D","o","n","e">>)>>)},
     priority : {Undefined, Num(0)},
     first : {Undefined}, after : {Undefined}, orderBy : {Undefined}]

SearchIssuesResponses ==
    {Rejected,
     Resolved([issues |-> [pageInfo |-> [hasNextPage |-> FALSE, endCursor |-> ""],
                           nodes |-> <<AnIssue>>]])}

handleSearchIssues ==
    \/ /\ pc = "idle"
       /\ \E a \in SearchIssuesInputs :
            /\ Invoke("search issues", a)
            /\ IF ~authenticated THEN Throw(<<VerifyAuth>>, AuthError, "search issues")
               ELSE Await(<<VerifyAuth,
                            Call("searchIssues",
                                 [filter |-> BuildFilter(a),
                                  first |-> IF Truthy(a.first) THEN a.first
                                            ELSE Num(DefaultFirst),
                                  after |-> a.after,
                                  orderBy |-> IF Truthy(a.orderBy) THEN a.orderBy
                                              ELSE Str(<<"u","p","d","a","t","e","d","A","t">>)])>>,
                          "awaitBackend")
    \/ /\ pc = "awaitBackend"
       /\ op = "search issues"
       /\ \E r \in SearchIssuesResponses :
            /\ response' = r
            /\ IF r.t = "rejected" THEN Throw(log, TransportError, "search issues")
               ELSE Return(createJsonResponse(r.v))
       /\ UNCHANGED <<authenticated, op, args, supplied, teams>>

----------------------------------------------------------------------------
Init ==
    /\ authenticated \in BOOLEAN
    /\ pc = "idle"
    /\ op = "none"
    /\ args = Undefined
    /\ supplied = Undefined
    /\ log = <<>>
    /\ teams = NotCalled
    /\ response = NotCalled
    /\ outcome = None

Next ==
    \/ handleCreateIssue
    \/ handleCreateIssues
    \/ handleDeleteIssue
    \/ handleDeleteIssues
    \/ handleAddComment
    \/ handleGetComments
    \/ handleUpdateIssue
    \/ handleBulkUpdateIssues
    \/ handleSearchIssues

Spec == Init /\ [][Next]_vars

----------------------------------------------------------------------------
\* Vocabulary of the properties.

BackendOps ==
    {"createIssue", "createIssues", "updateIssue", "updateIssues", "searchIssues",
     "deleteIssue", "deleteIssues", "addComment", "getComments", "getTeams"}

PrimaryOf(o) ==
    CASE o = "create issue" -> "createIssue"
      [] o = "create issues" -> "createIssues"
      [] o = "update issue" -> "updateIssue"
      [] o = "update issues" -> "updateIssues"
      [] o = "search issues" -> "searchIssues"
      [] o = "delete issue" -> "deleteIssue"
      [] o = "delete issues" -> "deleteIssues"
      [] o = "add comment" -> "addComment"
      [] o = "get comments" -> "getComments"
      [] OTHER -> "none"

\* The required fields as the interface table lists them.
RequiredFieldsOf(o) ==
    CASE o = "create issue" -> {"title", "description", "teamId"}
      [] o = "create issues" -> {"issues"}
      [] o = "update issue" -> {"id", "update"}
      [] o = "update issues" -> {"issueIds", "update"}
      [] o = "delete issue" -> {"id"}
      [] o = "delete issues" -> {"ids"}
      [] o = "add comment" -> {"issueId", "body"}
      [] o = "get comments" -> {"issueId"}
      [] OTHER -> {}

Names(l) == {l[i].name : i \in 1..Len(l)}
BackendCalls == SelectSeq(log, LAMBDA e : e.name \in BackendOps)
PrimaryCalls == SelectSeq(log, LAMBDA e : e.name \in BackendOps \ {"getTeams"})
UpdateCalls == SelectSeq(log, LAMBDA e : e.name \in {"updateIssue", "updateIssues"})
Count(name) == Len(SelectSeq(log, LAMBDA e : e.name = name))

UpdateOps == {"update issue", "update issues"}
HasUpdate == op \in UpdateOps /\ supplied.update.t = "object"
SuppliedStateId == supplied.update.v.stateId
PassedStateId(call) == call.arg.update.v.stateId

\* A request whose required fields are all there: non-empty strings, an
\* update object, non-empty lists.
ListFieldsOf(o) ==
    CASE o = "create issues" -> {"issues"}
      [] o = "update issues" -> {"issueIds"}
      [] o = "delete issues" -> {"ids"}
      [] OTHER -> {}
WellFormed ==
    /\ \A f \in RequiredFieldsOf(op) \ ListFieldsOf(op) :
          supplied[f].t = "object" \/ (supplied[f].t = "string" /\ supplied[f].v # <<>>)
    /\ \A f \in ListFieldsOf(op) : supplied[f].t = "array" /\ supplied[f].v # <<>>

\* The opaque-id shape, read off as five hyphen-separated groups of 8, 4, 4,
\* 4 and 12 hexadecimal digits of either case.
HexDigits ==
    {"0","1","2","3","4","5","6","7","8","9",
     "a","b","c","d","e","f","A","B","C","D","E","F"}
MatchesOpaqueIdPattern(s) ==
    LET groups == split(s)
        sizes == <<8, 4, 4, 4, 12>>
    IN /\ Len(groups) = 5
       /\ \A g \in 1..5 :
            /\ Len(groups[g]) = sizes[g]
            /\ \A i \in 1..Len(groups[g]) : groups[g][i] \in HexDigits

\* All workflow states of a getTeams result, teams in listing order and each
\* team's states in listing order.
RECURSIVE AllStates(_)
AllStates(nodes) ==
    IF nodes = <<>> THEN <<>> ELSE Head(nodes).states \o AllStates(Tail(nodes))
SameName(state, stateId) == toLowerCase(state.name.v) = toLowerCase(stateId.v)
MatchingIds(nodes, stateId) ==
    {AllStates(nodes)[i].id : i \in {j \in 1..Len(AllStates(nodes)) :
                                        SameName(AllStates(nodes)[j], stateId)}}

----------------------------------------------------------------------------
\* C1: an authenticated invocation of an operation with required fields
\* whose request lacks one of them ends in an error, and no adapter
\* operation (getTeams included) is invoked during it.
C1_MissingFieldFailsBeforeBackend ==
    (/\ pc # "idle"
     /\ authenticated
     /\ \E f \in RequiredFieldsOf(op) : supplied[f] = Undefined)
    => /\ pc = "done"
       /\ outcome.kind = "error"
       /\ BackendCalls = <<>>

C1_Witness ==
    /\ pc = "done"
    /\ authenticated
    /\ op = "update issues"
    /\ supplied.update = Undefined
    /\ Truthy(supplied.issueIds)
    /\ outcome.kind = "error"
    /\ outcome.error.name = "ValidationError"
    /\ outcome.error.value = "update"

\* C2: within one invocation verifyAuth comes first, then the validation of
\* the required fields, then the adapter calls; a failed verifyAuth is
\* followed by nothing; a successful invocation has made exactly one primary
\* adapter call, that of its operation; the only other adapter call is at
\* most one getTeams, made only by the two update operations and before the
\* update call.
C2_AuthValidateCallOrder ==
    /\ pc # "idle" => (log # <<>> /\ log[1].name = "verifyAuth")
    /\ (pc # "idle" /\ ~authenticated) => (Len(log) = 1 /\ outcome.kind = "error")
    /\ Count("verifyAuth") <= 1 /\ Count("validateRequiredParams") <= 1
    /\ \A i \in 1..Len(log) :
         log[i].name \in BackendOps =>
            /\ \E j \in 1..(i - 1) : log[j].name = "verifyAuth"
            /\ RequiredFieldsOf(op) # {} =>
                 \E j \in 1..(i - 1) : log[j].name = "validateRequiredParams"
    /\ \A i \in 1..Len(log) :
         log[i].name = "validateRequiredParams" =>
            \E j \in 1..(i - 1) : log[j].name = "verifyAuth"
    /\ Len(PrimaryCalls) <= 1
    /\ \A i \in 1..Len(PrimaryCalls) : PrimaryCalls[i].name = PrimaryOf(op)
    /\ outcome.kind = "ok" => Len(PrimaryCalls) = 1
    /\ Count("getTeams") <= 1
    /\ Count("getTeams") = 1 => op \in UpdateOps
    /\ \A i, j \in 1..Len(log) :
         (log[i].name = "getTeams" /\ log[j].name \in {"updateIssue", "updateIssues"})
            => i < j

C2_Witness ==
    /\ pc = "done"
    /\ outcome.kind = "ok"
    /\ op = "update issues"
    /\ Len(log) = 4
    /\ log[3].name = "getTeams"
    /\ log[4].name = "updateIssues"

\* C3: in both update operations, a string stateId that does not have the
\* opaque-id shape and equals, ignoring case, the name of a state in the
\* teams getTeams returned reaches the update call as that state's id; a
\* stateId of the opaque-id shape (either case) causes no getTeams call and
\* reaches the update call unchanged.
C3_StateNameResolved ==
    (HasUpdate /\ SuppliedStateId.t = "string") =>
        /\ (/\ ~MatchesOpaqueIdPattern(SuppliedStateId.v)
            /\ teams.t = "resolved"
            /\ MatchingIds(teams.v, SuppliedStateId) # {})
           => /\ Len(UpdateCalls) = 1
              /\ PassedStateId(UpdateCalls[1]) \in MatchingIds(teams.v, SuppliedStateId)
        /\ MatchesOpaqueIdPattern(SuppliedStateId.v)
           => /\ "getTeams" \notin Names(log)
              /\ \A i \in 1..Len(UpdateCalls) :
                    PassedStateId(UpdateCalls[i]) = SuppliedStateId
              /\ (authenticated /\ pc # "idle" /\ WellFormed) => Len(UpdateCalls) = 1

C3_Witness ==
    /\ HasUpdate
    /\ op = "update issue"
    /\ SuppliedStateId = Str(<<"D","o","N","e">>)
    /\ teams.t = "resolved"
    /\ Len(UpdateCalls) = 1
    /\ PassedStateId(UpdateCalls[1]) = StateIdAt(1, 1)

\* A stateId of the opaque-id shape in capitals goes to the update call as it is.
C3_WitnessOpaque ==
    /\ HasUpdate
    /\ op = "update issues"
    /\ SuppliedStateId = Str(UuidUpper)
    /\ pc = "done"
    /\ outcome.kind = "ok"

\* C4: in both update operations, when the lookup was triggered and yields
\* no id (getTeams failed, or no state of any team has the name, ignoring
\* case), the invocation ends in an error, which in the no-match case names
\* the value, and the update call is never made.
C4_UnresolvedStateFails ==
    (HasUpdate /\ teams.t # "notCalled"
        /\ (teams.t = "rejected" \/ MatchingIds(teams.v, SuppliedStateId) = {}))
    => /\ pc = "done"
       /\ outcome.kind = "error"
       /\ UpdateCalls = <<>>
       /\ teams.t = "resolved" =>
            /\ outcome.error.text = "Could not find state with name: "
            /\ outcome.error.value = SuppliedStateId

C4_Witness ==
    /\ HasUpdate
    /\ op = "update issues"
    /\ teams.t = "resolved"
    /\ Len(teams.v) = 2
    /\ SuppliedStateId = Str(<<"U","n","k","n","o","w","n">>)
    /\ outcome.kind = "error"
    /\ outcome.error.value = SuppliedStateId
    /\ UpdateCalls = <<>>

----------------------------------------------------------------------------
\* Vocabulary of the search properties.

\* The query without its leading and trailing blanks.
Trimmed(q) ==
    IF \A i \in 1..Len(q) : q[i] = " " THEN <<>>
    ELSE LET inked == {i \in 1..Len(q) : q[i] # " "}
             first == CHOOSE i \in inked : \A j \in inked : i <= j
             last == CHOOSE i \in inked : \A j \in inked : j <= i
         IN SubSeq(q, first, last)

\* <uppercase letters>-<digits>: the position of the hyphen, 0 when the text
\* has not that shape.
HyphenOfIdentifier(t) ==
    LET hs == {h \in 2..(Len(t) - 1) :
                  /\ t[h] = "-"
                  /\ \A j \in 1..(h - 1) : IsUpper(t[j])
                  /\ \A j \in (h + 1)..Len(t) : IsDigit(t[j])}
    IN IF hs = {} THEN 0 ELSE CHOOSE h \in hs : TRUE
IdentifierShaped(query) ==
    query.t = "string" /\ HyphenOfIdentifier(Trimmed(query.v)) # 0
LettersOf(query) ==
    SubSeq(Trimmed(query.v), 1, HyphenOfIdentifier(Trimmed(query.v)) - 1)
RECURSIVE Pow10(_)
Pow10(n) == IF n = 0 THEN 1 ELSE 10 * Pow10(n - 1)
RECURSIVE PlaceValueSum(_, _)
PlaceValueSum(ds, i) ==
    IF i > Len(ds) THEN 0
    ELSE DigitValue(ds[i]) * Pow10(Len(ds) - i) + PlaceValueSum(ds, i + 1)
NumberOf(query) ==
    LET t == Trimmed(query.v)
    IN PlaceValueSum(SubSeq(t, HyphenOfIdentifier(t) + 1, Len(t)), 1)

SearchCalls == SelectSeq(log, LAMBDA e : e.name = "searchIssues")
PassedFilter == SearchCalls[1].arg.filter
DirectFilters == {"project", "teamIds", "assigneeIds", "states", "priority"}
NoDirectFilters == \A f \in DirectFilters : supplied[f] = Undefined

TeamKeyTerm(key) == Obj([key |-> [eq |-> Str(key)]])
NumberTerm(n) == Obj([eq |-> Num(n)])
HasTeamKey(filter, key) ==
    /\ filter.team.t = "object"
    /\ "key" \in DOMAIN filter.team.v
    /\ filter.team.v.key = [eq |-> Str(key)]
HasTeamIds(filter, ids) ==
    /\ filter.team.t = "object"
    /\ "id" \in DOMAIN filter.team.v
    /\ filter.team.v.id = [in |-> ids]

\* C5: search issues without direct filters: a query whose trimmed form is
\* <uppercase letters>-<digits> gives searchIssues a filter of team.key eq
\* the letters and number eq the digits read as an integer, and no search
\* term; any other non-empty query gives search = the query and neither team
\* nor number; an absent query gives the empty filter.
C5_QueryFilter ==
    (op = "search issues" /\ NoDirectFilters /\ SearchCalls # <<>>) =>
        IF supplied.query = Undefined THEN PassedFilter = EmptyFilter
        ELSE IF IdentifierShaped(supplied.query)
        THEN PassedFilter =
                [EmptyFilter EXCEPT
                    !.team = TeamKeyTerm(LettersOf(supplied.query)),
                    !.number = NumberTerm(NumberOf(supplied.query))]
        ELSE IF supplied.query.v # <<>>
        THEN PassedFilter = [EmptyFilter EXCEPT !.search = supplied.query]
        ELSE TRUE

C5_Witness ==
    /\ op = "search issues"
    /\ NoDirectFilters
    /\ SearchCalls # <<>>
    /\ supplied.query = Str(<<" ", "A", "-", "7">>)
    /\ PassedFilter.team = TeamKeyTerm(<<"A">>)
    /\ PassedFilter.number = NumberTerm(7)
    /\ PassedFilter.search = Undefined

\* C6: search issues merges the direct filters independently of the query
\* branch and with AND: the filter given to searchIssues holds the term of
\* the query (team.key and number for an identifier-shaped query, search
\* otherwise) together with one term for each direct filter that is present
\* and none for one that is absent; an identifier-shaped query combined with
\* teamIds still constrains team.key to the parsed key.
C6_DirectFiltersAndQuery ==
    (op = "search issues" /\ SearchCalls # <<>>) =>
        /\ IdentifierShaped(supplied.query) =>
              /\ HasTeamKey(PassedFilter, LettersOf(supplied.query))
              /\ PassedFilter.number = NumberTerm(NumberOf(supplied.query))
              /\ PassedFilter.search = Undefined
        /\ (Truthy(supplied.query) /\ ~IdentifierShaped(supplied.query)) =>
              /\ PassedFilter.search = supplied.query
              /\ PassedFilter.number = Undefined
        /\ PassedFilter.project =
              (IF supplied.project = Undefined THEN Undefined
               ELSE Obj([id |-> [eq |-> supplied.project]]))
        /\ supplied.teamIds # Undefined => HasTeamIds(PassedFilter, supplied.teamIds)
        /\ supplied.teamIds = Undefined => ~HasTeamIds(PassedFilter, supplied.teamIds)
        /\ PassedFilter.assignee =
              (IF supplied.assigneeIds = Undefined THEN Undefined
               ELSE Obj([id |-> [in |-> supplied.assigneeIds]]))
        /\ PassedFilter.state =
              (IF supplied.states = Undefined THEN Undefined
               ELSE Obj([name |-> [in |-> supplied.states]]))
        /\ PassedFilter.priority =
              (IF supplied.priority = Undefined THEN Undefined
               ELSE Obj([eq |-> supplied.priority]))

----------------------------------------------------------------------------
\* C7: for every mutation operation, a backend response with success false,
\* or with success true and the payload its summary needs missing (issue
\* for create issue and update issue, issues for create issues, comment for
\* add comment), makes the invocation fail with the operation's own failure
\* message and never return a success result.
MutationOps ==
    {"create issue", "create issues", "update issue", "update issues",
     "delete issue", "delete issues", "add comment"}
PayloadOf(o) ==
    CASE o = "create issue" -> {"issue"}
      [] o = "update issue" -> {"issue"}
      [] o = "create issues" -> {"issues"}
      [] o = "add comment" -> {"comment"}
      [] OTHER -> {}
FailureMessageOf(o) ==
    CASE o = "create issue" -> "Failed to create issue"
      [] o = "create issues" -> "Failed to create issues"
      [] o = "update issue" -> "Failed to update issue"
      [] o = "update issues" -> "Failed to update issues"
      [] o = "delete issue" -> "Failed to delete issue"
      [] o = "delete issues" -> "Failed to delete issues"
      [] o = "add comment" -> "Failed to add comment"
      [] OTHER -> ""
C7_BackendFailureMessage ==
    (/\ op \in MutationOps
     /\ response.t = "resolved"
     /\ \/ ~response.v.success
        \/ \E f \in PayloadOf(op) : response.v[f] = Undefined)
    => /\ outcome.kind = "error"
       /\ outcome.error.text = FailureMessageOf(op)

----------------------------------------------------------------------------
\* C8: create issues with issues = [], bulk update issues with issueIds = []
\* and delete issues with ids = [] fail with a validation error before any
\* adapter call: the batch operation of the adapter is never invoked with an
\* empty list, and no success result counting 0 issues is returned for the
\* list the caller gave.
BatchOps == {"create issues", "update issues", "delete issues"}
ListPassed(call) ==
    IF call.name = "updateIssues" THEN call.arg.issueIds ELSE call.arg
----------------------------------------------------------------------------
\* C9: the resolution is first-match-wins over the whole collection: the id
\* given to the update call is that of the first state with the name
\* (ignoring case) when the teams are scanned in the order getTeams returned
\* them and each team's states in their listed order; a later team's state
\* is never chosen over an earlier team's.
C9_FirstMatchWins ==
    (HasUpdate /\ teams.t = "resolved" /\ UpdateCalls # <<>>) =>
        \E i \in 1..Len(AllStates(teams.v)) :
            /\ SameName(AllStates(teams.v)[i], SuppliedStateId)
            /\ \A j \in 1..(i - 1) : ~SameName(AllStates(teams.v)[j], SuppliedStateId)
            /\ \A c \in 1..Len(UpdateCalls) :
                  PassedStateId(UpdateCalls[c]) = AllStates(teams.v)[i].id

C9_Witness ==
    /\ HasUpdate
    /\ op = "update issues"
    /\ teams.t = "resolved"
    /\ Len(teams.v) = 2
    /\ Len(teams.v[1].states) = 2
    /\ Len(teams.v[2].states) = 1
    /\ teams.v[1].states[1].name = Str(<<"T","o","d","o">>)
    /\ teams.v[1].states[2].name = Str(<<"D","o","n","e">>)
    /\ teams.v[2].states[1].name = Str(<<"D","o","n","e">>)
    /\ SuppliedStateId = Str(<<"d","o","n","e">>)
    /\ Len(UpdateCalls) = 1
    /\ PassedStateId(UpdateCalls[1]) = StateIdAt(1, 2)

----------------------------------------------------------------------------
\* What both readings of C10 say about every update call: the other fields
\* of update and the issue id(s) are the caller's.
OthersAsSupplied(call) ==
    /\ call.arg.update.v.title = supplied.update.v.title
    /\ IF call.name = "updateIssue" THEN call.arg.id = supplied.id
       ELSE call.arg.issueIds = supplied.issueIds
StateIdOfTeams(stateId) ==
    /\ teams.t = "resolved"
    /\ \E i \in 1..Len(AllStates(teams.v)) : AllStates(teams.v)[i].id = stateId

\* C10 as stated: whenever updateIssue or updateIssues is invoked, the
\* stateId of its update argument is absent or not a string, or a string of
\* the opaque-id shape that the caller supplied, or the id of a state in the
\* teams getTeams returned in this invocation; every other string, the empty
\* one included, is looked up and never reaches the call as supplied.
C10_NameNeverReachesBackend ==
    HasUpdate =>
        \A c \in 1..Len(UpdateCalls) :
            /\ OthersAsSupplied(UpdateCalls[c])
            /\ \/ /\ PassedStateId(UpdateCalls[c]).t # "string"
                  /\ PassedStateId(UpdateCalls[c]) = SuppliedStateId
               \/ /\ PassedStateId(UpdateCalls[c]).t = "string"
                  /\ MatchesOpaqueIdPattern(PassedStateId(UpdateCalls[c]).v)
                  /\ PassedStateId(UpdateCalls[c]) = SuppliedStateId
               \/ /\ "getTeams" \in Names(log)
                  /\ StateIdOfTeams(PassedStateId(UpdateCalls[c]))

\* C10 as the code has it: the empty string is falsy and is taken for an
\* absent stateId, so it is not looked up and reaches the update call as
\* supplied; every non-empty string that has not the opaque-id shape is
\* looked up and reaches the call only as the id of a state of the teams.
C10_NonEmptyNameNeverReachesBackend ==
    HasUpdate =>
        \A c \in 1..Len(UpdateCalls) :
            /\ OthersAsSupplied(UpdateCalls[c])
            /\ \/ /\ PassedStateId(UpdateCalls[c]).t # "string"
                  /\ PassedStateId(UpdateCalls[c]) = SuppliedStateId
               \/ /\ PassedStateId(UpdateCalls[c]).t = "string"
                  /\ MatchesOpaqueIdPattern(PassedStateId(UpdateCalls[c]).v)
                  /\ PassedStateId(UpdateCalls[c]) = SuppliedStateId
               \/ /\ PassedStateId(UpdateCalls[c]) = Str(<<>>)
                  /\ SuppliedStateId = Str(<<>>)
                  /\ "getTeams" \notin Names(log)
               \/ /\ "getTeams" \in Names(log)
                  /\ SuppliedStateId.t = "string"
                  /\ SuppliedStateId.v # <<>>
                  /\ ~MatchesOpaqueIdPattern(SuppliedStateId.v)
                  /\ StateIdOfTeams(PassedStateId(UpdateCalls[c]))

C10_Witness ==
    /\ HasUpdate
    /\ op = "update issue"
    /\ SuppliedStateId = Str(<<>>)
    /\ Len(UpdateCalls) = 1
    /\ PassedStateId(UpdateCalls[1]) = Str(<<>>)
    /\ "getTeams" \notin Names(log)
    /\ pc = "done"
    /\ outcome.kind = "ok"
====
